---- MODULE Spec2Model ----
(***************************************************************************)
(* Model of distill: src/git.rs (GitManager), src/config.rs (Config) and   *)
(* src/main.rs (main).                                                     *)
(*                                                                         *)
(* A text is a sequence of one-character strings.  A tree is a function    *)
(* from Paths to a blob name, or None where the path has no entry.  The    *)
(* repository is its working tree, its index, its commits (a commit's id   *)
(* is its position in `commits`) and the commit HEAD resolves to (0 on an  *)
(* unborn branch).  Tree objects are content-addressed and immutable, so   *)
(* a tree is identified with its contents and writing one changes nothing  *)
(* that is read afterwards.                                                *)
(***************************************************************************)
EXTENDS Naturals, Sequences, FiniteSets

VARIABLES worktree, index, commits, head, last,
          pc, args, env, config, log, stdout, exit_code, error,
          has_staged, diff, commit_message, start

repo_vars == <<worktree, index, commits, head>>
main_vars == <<pc, args, env, config, log, stdout, exit_code, error,
               has_staged, diff, commit_message, start>>
vars == <<worktree, index, commits, head, last,
          pc, args, env, config, log, stdout, exit_code, error,
          has_staged, diff, commit_message, start>>

----------------------------------------------------------------------------
(* Bounds and the finite universe of values.                               *)

MaxCommits == 2

MaxChain == 3

None == "none"

PathOrder == <<"a", "b">>

Paths == {PathOrder[i] : i \in 1..Len(PathOrder)}

IgnoredPaths == {"b"}

Contents(p) == IF p = "a" THEN {"x", "y", "bin"} ELSE {"l"}

Trees == {t \in [Paths -> {None, "x", "y", "bin", "l"}] :
            \A p \in Paths : t[p] \in Contents(p) \cup {None}}

EmptyTree == [p \in Paths |-> None]

(* The trees the repository's first commit is drawn from.                  *)
RootTrees == {t \in Trees : t["a"] \in {"x", "bin"}}

Msgs == { <<"m">>, <<" ", "m", "\n">> }

NameValues == { <<>>, <<"A">> }

EmailValues == { <<>>, <<"e">> }

EnvValues == { <<>>, <<" ">>, <<" ", "k">> }

Option(S) == { <<>> } \cup { <<v>> : v \in S }

----------------------------------------------------------------------------
(* Texts.                                                                  *)

IsWhitespace(c) == c \in {" ", "\n", "\t"}

RECURSIVE TrimStart(_)
TrimStart(s) ==
  IF s = <<>> THEN <<>>
  ELSE IF IsWhitespace(Head(s)) THEN TrimStart(Tail(s)) ELSE s

RECURSIVE TrimEnd(_)
TrimEnd(s) ==
  IF s = <<>> THEN <<>>
  ELSE IF IsWhitespace(s[Len(s)]) THEN TrimEnd(SubSeq(s, 1, Len(s) - 1)) ELSE s

Trim(s) == TrimEnd(TrimStart(s))

----------------------------------------------------------------------------
(* The repository as git2 presents it to GitManager.                       *)

(* Tree of the commit HEAD resolves to; the empty tree on an unborn branch *)
(* (git2 Repository::statuses compares the index with it).                 *)
HeadTree == IF head = 0 THEN EmptyTree ELSE commits[head].tree

(* git2 Status flags of one path: INDEX_* compare HEAD's tree with the     *)
(* index, WT_* compare the index with the working tree.                    *)
StatusFlags(p) ==
  (IF HeadTree[p] = None /\ index[p] # None THEN {"INDEX_NEW"} ELSE {})
  \cup (IF HeadTree[p] # None /\ index[p] = None THEN {"INDEX_DELETED"} ELSE {})
  \cup (IF HeadTree[p] # None /\ index[p] # None /\ HeadTree[p] # index[p]
          THEN {"INDEX_MODIFIED"} ELSE {})
  \cup (IF index[p] # None /\ worktree[p] = None THEN {"WT_DELETED"} ELSE {})
  \cup (IF index[p] # None /\ worktree[p] # None /\ index[p] # worktree[p]
          THEN {"WT_MODIFIED"} ELSE {})
  \cup (IF index[p] = None /\ worktree[p] # None
          THEN (IF p \in IgnoredPaths THEN {"IGNORED"} ELSE {"WT_NEW"}) ELSE {})

(* repo.statuses(opts) with include_ignored(false), include_untracked(false) *)
statuses ==
  {p \in Paths : StatusFlags(p) \ {"IGNORED", "WT_NEW"} # {}}

StagedMaskWithWorkdir ==
  {"INDEX_NEW", "INDEX_MODIFIED", "INDEX_DELETED", "INDEX_RENAMED",
   "INDEX_TYPECHANGE", "WT_MODIFIED", "WT_DELETED"}

(* The flags has_staged_changes tests each entry against.                  *)
StagedMask ==
  {"INDEX_NEW", "INDEX_MODIFIED", "INDEX_DELETED", "INDEX_RENAMED",
   "INDEX_TYPECHANGE"}

(* GitManager::has_staged_changes: Ok(true) iff some status entry          *)
(* intersects the mask.                                                    *)
has_staged_changes ==
  \E p \in statuses : StatusFlags(p) \cap StagedMask # {}

(* A variant of add_all that lets an ignored untracked path through as     *)
(* soon as the index holds any entry.                                      *)
add_all_leaky(wt, idx) ==
  [p \in Paths |->
     IF idx[p] # None THEN wt[p]
     ELSE IF p \notin IgnoredPaths \/ (\E q \in Paths : idx[q] # None)
          THEN wt[p] ELSE None]

(* index.add_all(["*"], DEFAULT): every tracked path takes the working     *)
(* tree's content (or is removed when the file is gone); an untracked path *)
(* is added unless it is ignored.                                          *)
add_all(wt, idx) ==
  [p \in Paths |->
     IF idx[p] # None THEN wt[p]
     ELSE IF p \notin IgnoredPaths THEN wt[p] ELSE None]

----------------------------------------------------------------------------
(* The diff engine (git2 diff_tree_to_tree and Diff::print, Patch format)  *)
(* and the serialisation of its lines in get_staged_diff.                  *)

IsBinary(b) == b = "bin"

(* Blob "l" is text in a legacy encoding: its lines are not valid UTF-8.   *)
IsUtf8(b) == b # "l"

(* The lines of a blob, each a text ending in a newline.                   *)
BlobLines(b) ==
  IF b = "x" THEN << <<"k", "\n">>, <<"p", "\n">> >>
  ELSE IF b = "y" THEN << <<"k", "\n">>, <<"q", "\n">> >>
  ELSE IF b = "l" THEN << <<"L", "\n">> >>
  ELSE <<>>

Line(o, c, v) == [origin |-> o, content |-> c, valid |-> v]

RECURSIVE CommonPrefix(_, _)
CommonPrefix(s, t) ==
  IF s = <<>> \/ t = <<>> \/ Head(s) # Head(t) THEN 0
  ELSE 1 + CommonPrefix(Tail(s), Tail(t))

(* File header, then either the binary notice or one hunk: the shared      *)
(* leading lines as context, the old remainder deleted, the new one added. *)
DeltaLines(p, old, new) ==
  LET ol == IF old = None THEN <<>> ELSE BlobLines(old)
      nl == IF new = None THEN <<>> ELSE BlobLines(new)
      n  == CommonPrefix(ol, nl)
  IN  << Line("F", <<"d", p, "\n">>, TRUE) >> \o
      IF IsBinary(old) \/ IsBinary(new)
        THEN << Line("B", <<"b", p, "\n">>, TRUE) >>
        ELSE << Line("H", <<"@", "@", "\n">>, TRUE) >>
             \o [i \in 1..n |-> Line(" ", ol[i], IsUtf8(old))]
             \o [i \in 1..(Len(ol) - n) |-> Line("-", ol[n + i], IsUtf8(old))]
             \o [i \in 1..(Len(nl) - n) |-> Line("+", nl[n + i], IsUtf8(new))]

RECURSIVE DiffFrom(_, _, _)
DiffFrom(i, old, new) ==
  IF i > Len(PathOrder) THEN <<>>
  ELSE (IF old[PathOrder[i]] = new[PathOrder[i]] THEN <<>>
        ELSE DeltaLines(PathOrder[i], old[PathOrder[i]], new[PathOrder[i]]))
       \o DiffFrom(i + 1, old, new)

(* repo.diff_tree_to_tree(old, new): the deltas in path order.             *)
diff_tree_to_tree(old, new) == DiffFrom(1, old, new)

(* One call of the closure passed to diff.print: what it appends.          *)
print_line(line) ==
  IF line.origin \in {"+", "-", " "}
    THEN <<line.origin>> \o (IF line.valid THEN line.content ELSE <<>>)
  ELSE IF line.origin = "F"
    THEN (IF line.valid THEN <<"-", "-", "-", " ">> \o line.content ELSE <<>>)
  ELSE IF line.origin = "H"
    THEN (IF line.valid THEN <<"@", "@", " ">> \o line.content ELSE <<>>)
  ELSE <<>>

RECURSIVE diff_print(_)
diff_print(lines) ==
  IF lines = <<>> THEN <<>>
  ELSE print_line(Head(lines)) \o diff_print(Tail(lines))

----------------------------------------------------------------------------
(* GitManager's operations as functions of the repository state.           *)

(* A write_tree that empties the index it has written.                     *)
write_tree_clearing(idx) == [tree |-> idx, index |-> EmptyTree]

(* index.write_tree(): the tree object holding the index's entries; the    *)
(* index itself stays as it is.                                            *)
write_tree(idx) == [tree |-> idx, index |-> idx]

(* A staging whose result never reaches the index on disk.                 *)
stage_all_changes_unwritten == [ok |-> TRUE, index |-> index]

(* GitManager::stage_all_changes: add_all, then index.write().             *)
stage_all_changes == [ok |-> TRUE, index |-> add_all(worktree, index)]

(* GitManager::get_staged_diff: Err when repo.head() fails (unborn         *)
(* branch); otherwise the printed diff between HEAD's tree and the tree    *)
(* written from the index.                                                 *)
(* A diff that stages the working tree before it reads the index.         *)
get_staged_diff_staging ==
  IF head = 0
    THEN [ok |-> FALSE, text |-> <<>>, index |-> add_all(worktree, index)]
    ELSE LET w == write_tree(add_all(worktree, index))
         IN  [ok    |-> TRUE,
              text  |-> diff_print(diff_tree_to_tree(HeadTree, w.tree)),
              index |-> w.index]

get_staged_diff ==
  IF head = 0
    THEN [ok |-> FALSE, text |-> <<>>, index |-> index]
    ELSE LET w == write_tree(index)
         IN  [ok    |-> TRUE,
              text  |-> diff_print(diff_tree_to_tree(HeadTree, w.tree)),
              index |-> w.index]

FallbackName == <<"D", "i", "s", "t", "i", "l", "l">>

FallbackEmail == <<"d", "@", "e">>

(* The layered configuration as commit finds it: whether it opens, and    *)
(* user.name and user.email, each absent or present with a value.          *)
Configs ==
  {c \in [readable : BOOLEAN, name : Option(NameValues),
          email : Option(EmailValues)] :
     ~c.readable => (c.name = <<>> /\ c.email = <<>>)}

(* git2 Signature::now: name and email are trimmed and neither may be      *)
(* empty.                                                                  *)
Signature_now(name, email) ==
  IF Trim(name) = <<>> \/ Trim(email) = <<>>
    THEN [ok |-> FALSE, name |-> <<>>, email |-> <<>>]
    ELSE [ok |-> TRUE, name |-> Trim(name), email |-> Trim(email)]

(* GitManager::get_signature: the configured pair when the configuration   *)
(* opens and both get_string calls are Ok, else the default signature.     *)
get_signature(cfg) ==
  IF cfg.readable /\ cfg.name # <<>> /\ cfg.email # <<>>
    THEN Signature_now(cfg.name[1], cfg.email[1])
    ELSE Signature_now(FallbackName, FallbackEmail)

(* A commit that tidies the message before storing it.                     *)
stored_message_trimmed(message) == Trim(message)

(* The message as repo.commit stores it: the bytes it was given.           *)
stored_message(message) == message

(* The parents GitManager::commit passes to repo.commit.                   *)
commit_parents(h) == <<h>>

(* A commit that, finding no HEAD commit, creates a parentless one.        *)
commit_or_root(message, cfg) ==
  LET sig == get_signature(cfg)
      w   == write_tree(index)
  IN  IF ~sig.ok
        THEN [ok |-> FALSE, commits |-> commits, head |-> head,
              index |-> index, sig |-> sig]
        ELSE [ok      |-> TRUE,
              commits |-> Append(commits,
                                 [parents |-> IF head = 0 THEN <<>> ELSE <<head>>,
                                  tree    |-> w.tree,
                                  message |-> stored_message(message),
                                  author  |-> <<sig.name, sig.email>>,
                                  committer |-> <<sig.name, sig.email>>]),
              head    |-> Len(commits) + 1,
              index   |-> w.index,
              sig     |-> sig]

(* GitManager::commit: signature, tree from the index, HEAD's commit as    *)
(* the one parent, then repo.commit(Some("HEAD"), ...).                    *)
(* A commit that creates its commit object without moving HEAD to it.      *)
commit_keeping_head(message, cfg) ==
  LET sig == get_signature(cfg)
      w   == write_tree(index)
  IN  IF ~sig.ok \/ head = 0
        THEN [ok |-> FALSE, commits |-> commits, head |-> head,
              index |-> w.index, sig |-> sig]
        ELSE [ok      |-> TRUE,
              commits |-> Append(commits,
                                 [parents |-> <<head>>,
                                  tree    |-> w.tree,
                                  message |-> stored_message(message),
                                  author  |-> <<sig.name, sig.email>>,
                                  committer |-> <<sig.name, sig.email>>]),
              head    |-> head,
              index   |-> w.index,
              sig     |-> sig]

(* A commit that replaces HEAD's commit instead of adding a child.         *)
commit_amending(message, cfg) ==
  LET sig == get_signature(cfg)
      w   == write_tree(index)
  IN  IF ~sig.ok \/ head = 0
        THEN [ok |-> FALSE, commits |-> commits, head |-> head,
              index |-> w.index, sig |-> sig]
        ELSE [ok      |-> TRUE,
              commits |-> [commits EXCEPT
                             ![head] = [parents |-> commits[head].parents,
                                        tree    |-> w.tree,
                                        message |-> stored_message(message),
                                        author  |-> <<sig.name, sig.email>>,
                                        committer |-> <<sig.name, sig.email>>]],
              head    |-> head,
              index   |-> w.index,
              sig     |-> sig]

commit(message, cfg) ==
  LET sig == get_signature(cfg)
      w   == write_tree(index)
      unchanged == [ok |-> FALSE, commits |-> commits, head |-> head,
                    index |-> index, sig |-> sig]
  IN  IF ~sig.ok THEN unchanged
      ELSE IF head = 0
        THEN [unchanged EXCEPT !.index = w.index]
      ELSE [ok      |-> TRUE,
            commits |-> Append(commits,
                               [parents |-> commit_parents(head),
                                tree    |-> w.tree,
                                message |-> stored_message(message),
                                author  |-> <<sig.name, sig.email>>,
                                committer |-> <<sig.name, sig.email>>]),
            head    |-> Len(commits) + 1,
            index   |-> w.index,
            sig     |-> sig]

----------------------------------------------------------------------------
(* State machine.  `last` records the latest GitManager call made directly *)
(* on the handle: its arguments, its result and the state it was made in.  *)

NoConfig == [readable |-> FALSE, name |-> <<>>, email |-> <<>>]

NoSig == [ok |-> FALSE, name |-> <<>>, email |-> <<>>]

NoCall ==
  [op |-> "none", prev |-> "none", ok |-> FALSE, flag |-> FALSE,
   text |-> <<>>, arg |-> <<>>, cfg |-> NoConfig, sig |-> NoSig,
   pre_head |-> 0, pre_count |-> 0, pre_index |-> EmptyTree,
   pre_worktree |-> EmptyTree, pre_ok |-> FALSE, pre_text |-> <<>>,
   pre_commits |-> <<>>]

Call(op) ==
  [NoCall EXCEPT !.op = op, !.prev = last.op,
                 !.pre_head = head, !.pre_count = Len(commits),
                 !.pre_index = index, !.pre_worktree = worktree,
                 !.pre_commits = commits,
                 !.pre_ok = (last.op = op /\ last.ok),
                 !.pre_text = IF last.op = op THEN last.text ELSE <<>>]

RootCommit(t) ==
  [parents |-> <<>>, tree |-> t, message |-> <<"i">>,
   author |-> <<FallbackName, FallbackEmail>>,
   committer |-> <<FallbackName, FallbackEmail>>]

NoStart ==
  [head |-> 0, commits |-> <<>>, index |-> EmptyTree, worktree |-> EmptyTree,
   after_commit |-> FALSE]

(* No process of the program is running.                                   *)
MainIdle ==
  /\ pc = "idle"
  /\ args = [no_auto_stage |-> FALSE, dry_run |-> FALSE]
  /\ env = [OPENROUTER_API_KEY |-> <<>>, in_repository |-> TRUE]
  /\ config = <<>>
  /\ log = <<>>
  /\ stdout = <<>>
  /\ exit_code = 0
  /\ error = ""
  /\ has_staged = FALSE
  /\ diff = <<>>
  /\ commit_message = <<>>
  /\ start = NoStart

(* A repository as the program finds it: an unborn branch with nothing     *)
(* checked in, or one commit freshly checked out.                          *)
Init ==
  /\ \/ /\ head = 0
        /\ commits = <<>>
        /\ worktree = EmptyTree
        /\ index = EmptyTree
     \/ \E t \in RootTrees :
          /\ head = 1
          /\ commits = << RootCommit(t) >>
          /\ worktree = t
          /\ index = t
  /\ last = NoCall
  /\ MainIdle

(* The program assumes it is the repository's only writer while it works   *)
(* on it: the user prepares the working tree and the index beforehand.     *)
(* The user edits, creates or deletes a file in the working tree.          *)
EditFile ==
  /\ pc = "idle"
  /\ last = NoCall
  /\ \E p \in Paths : \E c \in Contents(p) \cup {None} :
       /\ worktree[p] # c
       /\ worktree' = [worktree EXCEPT ![p] = c]
  /\ last' = NoCall
  /\ UNCHANGED <<index, commits, head>>
  /\ UNCHANGED main_vars

(* The user stages one path (git add -f / git rm --cached).                *)
GitAdd ==
  /\ pc = "idle"
  /\ last = NoCall
  /\ \E p \in Paths :
       /\ index[p] # worktree[p]
       /\ index' = [index EXCEPT ![p] = worktree[p]]
  /\ last' = NoCall
  /\ UNCHANGED <<worktree, commits, head>>
  /\ UNCHANGED main_vars

CallHasStagedChanges ==
  /\ pc = "idle"
  /\ last' = [Call("has_staged_changes") EXCEPT !.ok = TRUE,
                                                 !.flag = has_staged_changes]
  /\ UNCHANGED repo_vars
  /\ UNCHANGED main_vars

CallStageAllChanges ==
  /\ pc = "idle"
  /\ index' = stage_all_changes.index
  /\ last' = [Call("stage_all_changes") EXCEPT !.ok = stage_all_changes.ok]
  /\ UNCHANGED <<worktree, commits, head>>
  /\ UNCHANGED main_vars

CallGetStagedDiff ==
  /\ pc = "idle"
  /\ index' = get_staged_diff.index
  /\ last' = [Call("get_staged_diff") EXCEPT !.ok = get_staged_diff.ok,
                                              !.text = get_staged_diff.text]
  /\ UNCHANGED <<worktree, commits, head>>
  /\ UNCHANGED main_vars

(* A direct call of commit while the history holds fewer than `bound`      *)
(* commits.                                                                *)
CommitCall(bound) ==
  /\ pc = "idle"
  /\ Len(commits) < bound
  /\ \E message \in Msgs : \E cfg \in Configs :
       LET r == commit(message, cfg)
       IN  /\ commits' = r.commits
           /\ head' = r.head
           /\ index' = r.index
           /\ last' = [Call("commit") EXCEPT !.ok = r.ok, !.arg = message,
                                              !.cfg = cfg, !.sig = r.sig]
  /\ UNCHANGED worktree
  /\ UNCHANGED main_vars

CallCommit == CommitCall(MaxCommits)

Next ==
  \/ EditFile
  \/ GitAdd
  \/ CallHasStagedChanges
  \/ CallStageAllChanges
  \/ CallGetStagedDiff
  \/ CallCommit

Spec == Init /\ [][Next]_vars

(* Longer histories: the user only edits files, the handle does the rest.  *)
CallCommitChain == CommitCall(MaxChain)

NextChain ==
  \/ EditFile
  \/ CallHasStagedChanges
  \/ CallStageAllChanges
  \/ CallGetStagedDiff
  \/ CallCommitChain

SpecChain == Init /\ [][NextChain]_vars

----------------------------------------------------------------------------
(* main: one process of the program, a step per call it makes.  `log` is   *)
(* the calls made so far, `start` the repository as the process found it.  *)

(* A Config::load that tests the value for emptiness without trimming.     *)
Config_load_untrimmed(e) ==
  IF e.OPENROUTER_API_KEY = <<>> THEN [ok |-> FALSE, config |-> <<>>]
  ELSE IF e.OPENROUTER_API_KEY[1] = <<>> THEN [ok |-> FALSE, config |-> <<>>]
  ELSE [ok |-> TRUE, config |-> << e.OPENROUTER_API_KEY[1] >>]

(* Config::load: Err when the variable is unset or blank after trimming,   *)
(* else the value as read.                                                 *)
Config_load(e) ==
  IF e.OPENROUTER_API_KEY = <<>> THEN [ok |-> FALSE, config |-> <<>>]
  ELSE IF Trim(e.OPENROUTER_API_KEY[1]) = <<>> THEN [ok |-> FALSE, config |-> <<>>]
  ELSE [ok |-> TRUE, config |-> << e.OPENROUTER_API_KEY[1] >>]

Out(line) == [line |-> line, text |-> <<>>]

(* An error that leaves main with exit status 0.                           *)
Fail_exit_zero(e) ==
  /\ pc' = "exited"
  /\ exit_code' = 0
  /\ error' = e

(* anyhow::bail! or a propagated Err leaving main: exit status 1.          *)
Fail(e) ==
  /\ pc' = "exited"
  /\ exit_code' = 1
  /\ error' = e

(* The environment is recorded when main reads it: the variable in        *)
(* LoadConfig, the current directory in OpenRepository.                    *)
Run ==
  /\ pc \in {"idle", "exited"}
  /\ \E a \in [no_auto_stage : BOOLEAN, dry_run : BOOLEAN] : args' = a
  /\ env' = [OPENROUTER_API_KEY |-> <<>>, in_repository |-> TRUE]
  /\ pc' = "load_config"
  /\ config' = <<>>
  /\ log' = <<>>
  /\ stdout' = <<>>
  /\ exit_code' = 0
  /\ error' = ""
  /\ has_staged' = FALSE
  /\ diff' = <<>>
  /\ commit_message' = <<>>
  /\ start' = [head |-> head, commits |-> commits, index |-> index,
               worktree |-> worktree,
               after_commit |-> (pc = "exited" /\ exit_code = 0
                                 /\ log # <<>> /\ log[Len(log)] = "commit")]
  /\ UNCHANGED <<repo_vars, last>>

LoadConfig ==
  /\ pc = "load_config"
  /\ log' = Append(log, "Config::load")
  /\ \E k \in Option(EnvValues) :
       /\ env' = [env EXCEPT !.OPENROUTER_API_KEY = k]
       /\ IF Config_load(env').ok
            THEN /\ config' = Config_load(env').config
                 /\ pc' = "open"
                 /\ UNCHANGED <<exit_code, error>>
            ELSE /\ Fail("configuration")
                 /\ UNCHANGED config
  /\ UNCHANGED <<repo_vars, last, args, stdout, has_staged, diff,
                 commit_message, start>>

OpenRepository ==
  /\ pc = "open"
  /\ log' = Append(log, "GitManager::new")
  /\ \E r \in BOOLEAN :
       /\ env' = [env EXCEPT !.in_repository = r]
       /\ IF r
            THEN pc' = "check" /\ UNCHANGED <<exit_code, error>>
            ELSE Fail("open")
  /\ UNCHANGED <<repo_vars, last, args, config, stdout, has_staged, diff,
                 commit_message, start>>

(* A check that stages whatever the flag says.                            *)
after_check_ignoring_flag(staged, a) ==
  IF staged THEN "get_diff" ELSE "stage_all"

(* A main that stages everything even when something is staged already.   *)
after_check_always_stage(staged, a) ==
  IF ~staged /\ a.no_auto_stage THEN "bail" ELSE "stage_all"

(* main.rs 55-61: where main goes after the first has_staged_changes.      *)
after_check(staged, a) ==
  IF staged THEN "get_diff"
  ELSE IF a.no_auto_stage THEN "bail" ELSE "stage_all"

CheckStaged ==
  /\ pc = "check"
  /\ log' = Append(log, "has_staged_changes")
  /\ has_staged' = has_staged_changes
  /\ IF after_check(has_staged_changes, args) = "bail"
       THEN Fail("no staged changes and --no-auto-stage")
       ELSE /\ pc' = after_check(has_staged_changes, args)
            /\ UNCHANGED <<exit_code, error>>
  /\ UNCHANGED <<repo_vars, last, args, env, config, stdout, diff,
                 commit_message, start>>

StageAll ==
  /\ pc = "stage_all"
  /\ log' = Append(log, "stage_all_changes")
  /\ index' = stage_all_changes.index
  /\ pc' = "recheck"
  /\ UNCHANGED <<worktree, commits, head, last, args, env, config, stdout,
                 exit_code, error, has_staged, diff, commit_message, start>>

(* A re-check whose answer is not looked at.                               *)
after_recheck_unchecked(staged) == "get_diff"

(* main.rs 64-66: where main goes after the second has_staged_changes.     *)
after_recheck(staged) == IF staged THEN "get_diff" ELSE "bail"

Recheck ==
  /\ pc = "recheck"
  /\ log' = Append(log, "has_staged_changes")
  /\ IF after_recheck(has_staged_changes) = "bail"
       THEN Fail("no changes after staging")
       ELSE /\ pc' = after_recheck(has_staged_changes)
            /\ UNCHANGED <<exit_code, error>>
  /\ UNCHANGED <<repo_vars, last, args, env, config, stdout, has_staged, diff,
                 commit_message, start>>

GetDiff ==
  /\ pc = "get_diff"
  /\ log' = Append(log, "get_staged_diff")
  /\ index' = get_staged_diff.index
  /\ IF ~get_staged_diff.ok
       THEN Fail("diff") /\ UNCHANGED diff
       ELSE /\ diff' = get_staged_diff.text
            /\ IF Trim(get_staged_diff.text) = <<>>
                 THEN Fail("empty diff")
                 ELSE pc' = "generate" /\ UNCHANGED <<exit_code, error>>
  /\ UNCHANGED <<worktree, commits, head, last, args, env, config, stdout,
                 has_staged, commit_message, start>>

(* OpenRouterClient::generate_commit_message: the client answers with a    *)
(* message or fails.                                                       *)
generate_commit_message(d) ==
  {[ok |-> TRUE, message |-> m] : m \in Msgs}
  \cup {[ok |-> FALSE, message |-> <<>>]}

(* A main that asks the client once more after a client error.             *)
Generate_retrying ==
  /\ pc = "generate"
  /\ log' = Append(log, "generate_commit_message")
  /\ \E r \in generate_commit_message(diff) :
       IF r.ok
         THEN /\ commit_message' = r.message
              /\ pc' = "print"
              /\ UNCHANGED <<exit_code, error>>
         ELSE IF log # <<>> /\ log[Len(log)] = "generate_commit_message"
           THEN /\ Fail("generation")
                /\ UNCHANGED commit_message
           ELSE UNCHANGED <<pc, exit_code, error, commit_message>>
  /\ UNCHANGED <<repo_vars, last, args, env, config, stdout, has_staged, diff,
                 start>>

Generate ==
  /\ pc = "generate"
  /\ log' = Append(log, "generate_commit_message")
  /\ \E r \in generate_commit_message(diff) :
       IF r.ok
         THEN /\ commit_message' = r.message
              /\ pc' = "print"
              /\ UNCHANGED <<exit_code, error>>
         ELSE /\ Fail("generation")
              /\ UNCHANGED commit_message
  /\ UNCHANGED <<repo_vars, last, args, env, config, stdout, has_staged, diff,
                 start>>

(* A main that commits in dry-run mode too.                                *)
after_print_always_commit(a) == "commit"

(* main.rs 89-92: where main goes after printing the message.              *)
after_print(a) == IF a.dry_run THEN "return" ELSE "commit"

PrintMessage ==
  /\ pc = "print"
  /\ LET framed == stdout \o << Out("Generated commit message:"),
                               Out("------------------------"),
                               [line |-> "{}", text |-> commit_message],
                               Out("------------------------") >>
     IN  IF after_print(args) = "return"
           THEN /\ stdout' = Append(framed, Out("Dry run mode"))
                /\ pc' = "exited"
                /\ exit_code' = 0
           ELSE /\ stdout' = framed
                /\ pc' = "commit"
                /\ UNCHANGED exit_code
  /\ UNCHANGED <<repo_vars, last, args, env, config, log, error, has_staged,
                 diff, commit_message, start>>

(* A process commits at most once, and with the working tree left alone   *)
(* between processes at most two of them find something to commit.         *)
Commit ==
  /\ pc = "commit"
  /\ log' = Append(log, "commit")
  /\ \E cfg \in Configs :
       LET r == commit(commit_message, cfg)
       IN  /\ commits' = r.commits
           /\ head' = r.head
           /\ index' = r.index
           /\ IF r.ok
                THEN /\ stdout' = Append(stdout, Out("Successfully committed"))
                     /\ pc' = "exited"
                     /\ exit_code' = 0
                     /\ UNCHANGED error
                ELSE /\ Fail("commit")
                     /\ UNCHANGED stdout
  /\ UNCHANGED <<worktree, last, args, env, config, has_staged, diff,
                 commit_message, start>>

NextMain ==
  \/ EditFile
  \/ GitAdd
  \/ Run
  \/ LoadConfig
  \/ OpenRepository
  \/ CheckStaged
  \/ StageAll
  \/ Recheck
  \/ GetDiff
  \/ Generate
  \/ PrintMessage
  \/ Commit

SpecMain == Init /\ [][NextMain]_vars

----------------------------------------------------------------------------
(* Properties.                                                             *)

Contains(s, x) == \E i \in DOMAIN s : s[i] = x

(* C1: a successful commit(M) made while HEAD is a commit C adds exactly   *)
(* one commit N: N's only parent is C, N's message is M character for      *)
(* character, N's tree is the index as it was at the call, and HEAD is N.  *)
C1_CommitCreatesChild ==
  (last.op = "commit" /\ last.ok) =>
     /\ last.pre_head # 0
     /\ Len(commits) = last.pre_count + 1
     /\ head = Len(commits)
     /\ commits[head].parents = << last.pre_head >>
     /\ commits[head].message = last.arg
     /\ commits[head].tree = last.pre_index

(* A commit of a message with surrounding whitespace, over staged changes. *)
C1_Witness ==
  /\ last.op = "commit"
  /\ last.ok
  /\ last.arg = <<" ", "m", "\n">>
  /\ head = 2
  /\ commits[head].tree # commits[1].tree

BothConfigured(cfg) ==
  /\ cfg.readable
  /\ cfg.name # <<>> /\ cfg.email # <<>>
  /\ cfg.name[1] # <<>> /\ cfg.email[1] # <<>>

(* C6: whatever user.name and user.email are (absent, empty or set), a     *)
(* commit on a repository with a HEAD commit succeeds, authored by the     *)
(* configured pair iff both are present and non-empty and by the fallback  *)
(* identity otherwise.                                                     *)
C6_IdentityFallback ==
  (last.op = "commit" /\ last.pre_head # 0) =>
     /\ last.ok
     /\ commits[head].author =
          IF BothConfigured(last.cfg)
            THEN << last.cfg.name[1], last.cfg.email[1] >>
            ELSE << FallbackName, FallbackEmail >>

(* A path that is in HEAD's tree and in the index and whose file differs   *)
(* from the committed content.                                             *)
ModifiedTracked(wt, idx, ht, p) ==
  /\ ht[p] # None
  /\ idx[p] # None
  /\ wt[p] # None
  /\ wt[p] # ht[p]

(* C7: with at least one commit, has_staged_changes answers false whenever *)
(* the index equals HEAD's tree, whatever the working tree holds, and      *)
(* answers true right after stage_all_changes ran over a working tree with *)
(* a modified tracked file.                                                *)
C7_StagedOnlyIndexVsHead ==
  (last.op = "has_staged_changes" /\ head # 0) =>
     /\ last.ok
     /\ (index = HeadTree => ~last.flag)
     /\ (/\ last.prev = "stage_all_changes"
         /\ \E p \in Paths : ModifiedTracked(worktree, last.pre_index, HeadTree, p))
        => last.flag

(* The answer is false although a tracked file is modified and another     *)
(* file is untracked.                                                      *)
C7_Witness ==
  /\ last.op = "has_staged_changes"
  /\ head # 0
  /\ index = HeadTree
  /\ ~last.flag
  /\ \E p \in Paths : "WT_MODIFIED" \in StatusFlags(p)
  /\ \E p \in Paths : StatusFlags(p) \cap {"WT_NEW", "IGNORED"} # {}

(* C8: a second stage_all_changes right after a first, the working tree    *)
(* untouched, leaves the index as the first call left it.                  *)
C8_StageAllIdempotent ==
  (last.op = "stage_all_changes" /\ last.prev = "stage_all_changes") =>
     /\ index = last.pre_index
     /\ worktree = last.pre_worktree

(* Two calls in a row over staged content and an ignored untracked file.   *)
C8_Witness ==
  /\ last.op = "stage_all_changes"
  /\ last.prev = "stage_all_changes"
  /\ index # HeadTree
  /\ \E p \in Paths : index[p] # None
  /\ \E p \in Paths : "IGNORED" \in StatusFlags(p)

(* C9: a second get_staged_diff right after a first returns what the first *)
(* returned.                                                               *)
C9_DiffDeterministic ==
  (last.op = "get_staged_diff" /\ last.prev = "get_staged_diff") =>
     /\ last.ok = last.pre_ok
     /\ last.text = last.pre_text

(* Two calls in a row that return a non-empty patch.                       *)
C9_Witness ==
  /\ last.op = "get_staged_diff"
  /\ last.prev = "get_staged_diff"
  /\ last.ok
  /\ last.text # <<>>

----------------------------------------------------------------------------
(* Properties of one run of main.                                          *)

StartHeadTree ==
  IF start.head = 0 THEN EmptyTree ELSE start.commits[start.head].tree

NothingStagedAtStart == start.index = StartHeadTree

CredentialValid ==
  /\ env.OPENROUTER_API_KEY # <<>>
  /\ Trim(env.OPENROUTER_API_KEY[1]) # <<>>

ModifiedAtStart ==
  {p \in Paths : ModifiedTracked(start.worktree, start.index, StartHeadTree, p)}

Exited == pc = "exited"

MessageGenerated ==
  Contains(log, "generate_commit_message") /\ error # "generation"

MessagePrinted ==
  \E i \in DOMAIN stdout :
     /\ i > 2
     /\ stdout[i - 2] = Out("Generated commit message:")
     /\ stdout[i - 1] = Out("------------------------")
     /\ stdout[i] = [line |-> "{}", text |-> commit_message]
     /\ i < Len(stdout)
     /\ stdout[i + 1] = Out("------------------------")

HistoryUntouched == commits = start.commits /\ head = start.head

(* C2: a run with a valid credential, in a repository with a commit, one   *)
(* modified tracked file, nothing staged, neither flag given and a client  *)
(* that answers, stages the file, gets a non-empty diff and ends with HEAD *)
(* advanced by exactly one commit.                                         *)
C2_AutoStageCommits ==
  (/\ Exited
   /\ CredentialValid
   /\ env.in_repository
   /\ start.head # 0
   /\ NothingStagedAtStart
   /\ Cardinality(ModifiedAtStart) = 1
   /\ ~args.no_auto_stage
   /\ ~args.dry_run
   /\ MessageGenerated)
  => /\ Contains(log, "stage_all_changes")
     /\ \A p \in ModifiedAtStart : index[p] = start.worktree[p]
     /\ Trim(diff) # <<>>
     /\ exit_code = 0
     /\ Len(commits) = Len(start.commits) + 1
     /\ SubSeq(commits, 1, Len(start.commits)) = start.commits
     /\ head = Len(commits)
     /\ commits[head].parents = << start.head >>

(* C3: a run that finds nothing staged and was given --no-auto-stage ends  *)
(* with an error; it never calls stage_all_changes, the client or commit,  *)
(* and the index and the history stay as they were.                        *)
C3_NoAutoStageRefuses ==
  (pc \notin {"idle", "load_config", "open", "check"}
   /\ NothingStagedAtStart /\ args.no_auto_stage)
  => /\ Exited
     /\ exit_code = 1
     /\ (CredentialValid /\ env.in_repository
           => error = "no staged changes and --no-auto-stage")
     /\ ~Contains(log, "stage_all_changes")
     /\ ~Contains(log, "generate_commit_message")
     /\ ~Contains(log, "commit")
     /\ index = start.index
     /\ worktree = start.worktree
     /\ HistoryUntouched

(* The policy error, over a working tree with something to stage.          *)
C3_Witness ==
  /\ Exited
  /\ NothingStagedAtStart
  /\ args.no_auto_stage
  /\ error = "no staged changes and --no-auto-stage"
  /\ start.worktree # start.index
  /\ start.head # 0

(* C4: a --dry-run run that finds staged changes and whose client answers  *)
(* prints the message and ends successfully without calling commit; HEAD   *)
(* and the commits are what they were before the run.                      *)
C4_DryRunNoCommit ==
  (args.dry_run /\ ~NothingStagedAtStart /\ pc # "idle")
  => /\ HistoryUntouched
     /\ ~Contains(log, "commit")
     /\ pc # "commit"
     /\ (Exited /\ MessageGenerated)
        => (exit_code = 0 /\ error = "" /\ MessagePrinted)

(* A dry run over staged changes that printed a message and exited 0.      *)
C4_Witness ==
  /\ Exited
  /\ args.dry_run
  /\ ~NothingStagedAtStart
  /\ start.head # 0
  /\ MessagePrinted
  /\ exit_code = 0
  /\ commit_message = <<" ", "m", "\n">>

(* C5: a run (past the credential and the open) that finds working tree,   *)
(* index and HEAD's tree identical, with auto-stage allowed, calls         *)
(* stage_all_changes, finds nothing staged again and ends with an error    *)
(* before any diff, client call or commit.                                 *)
C5_NothingToCommit ==
  (/\ Exited
   /\ CredentialValid
   /\ env.in_repository
   /\ start.worktree = start.index
   /\ NothingStagedAtStart
   /\ ~args.no_auto_stage)
  => /\ log = << "Config::load", "GitManager::new", "has_staged_changes",
                 "stage_all_changes", "has_staged_changes" >>
     /\ exit_code = 1
     /\ error = "no changes after staging"
     /\ index = start.index
     /\ HistoryUntouched

(* Such a run, in a repository with a commit and files.                    *)
C5_Witness ==
  /\ Exited
  /\ CredentialValid
  /\ env.in_repository
  /\ start.head # 0
  /\ start.worktree = start.index
  /\ start.worktree # EmptyTree
  /\ NothingStagedAtStart
  /\ ~args.no_auto_stage
  /\ error = "no changes after staging"

(* C10: Config::load fails iff the variable is unset or blank after        *)
(* trimming; then main ends with an error having made no call on the       *)
(* repository; otherwise the value is kept as it was read.                 *)
C10_CredentialFirst ==
  (pc \notin {"idle", "load_config"}) =>
     /\ log[1] = "Config::load"
     /\ (error = "configuration") <=> ~CredentialValid
     /\ ~CredentialValid =>
          /\ Exited
          /\ exit_code = 1
          /\ log = << "Config::load" >>
          /\ index = start.index
          /\ worktree = start.worktree
          /\ HistoryUntouched
     /\ CredentialValid => config = << env.OPENROUTER_API_KEY[1] >>

(* A run given a credential of blanks only, refused.                       *)
C10_Witness ==
  /\ Exited
  /\ env.OPENROUTER_API_KEY = << <<" ">> >>
  /\ error = "configuration"
  /\ exit_code = 1

(* The run stopped at the dry-run return.                                  *)
DryRunStop ==
  /\ args.dry_run
  /\ MessagePrinted
  /\ stdout[Len(stdout)] = Out("Dry run mode")
  /\ ~Contains(log, "commit")

(* The run's commit call returned Ok.                                      *)
CommitSucceeded ==
  /\ log # <<>> /\ log[Len(log)] = "commit"
  /\ error = ""
  /\ Len(commits) = Len(start.commits) + 1
  /\ head = Len(commits)

----------------------------------------------------------------------------
(* Further properties of direct calls.                                     *)

(* C12: on an unborn branch (no commit for HEAD to resolve to) commit      *)
(* returns Err whatever the message and the index, creates no commit and   *)
(* leaves HEAD where it was.                                               *)
C12_NoParentNoCommit ==
  (last.op = "commit" /\ last.pre_head = 0) =>
     /\ ~last.ok
     /\ commits = last.pre_commits
     /\ commits = <<>>
     /\ head = 0
     /\ index = last.pre_index

(* Such a call with entries in the index and a usable identity.            *)
C12_Witness ==
  /\ last.op = "commit"
  /\ last.pre_head = 0
  /\ last.sig.ok
  /\ last.arg = <<" ", "m", "\n">>
  /\ index # EmptyTree
  /\ ~last.ok

(* The lines handed to the closure by the latest get_staged_diff.          *)
DeliveredLines == diff_tree_to_tree(HeadTree, last.pre_index)

RECURSIVE ValidLines(_)
ValidLines(lines) ==
  IF lines = <<>> THEN <<>>
  ELSE (IF Head(lines).valid THEN <<Head(lines)>> ELSE <<>>)
       \o ValidLines(Tail(lines))

(* C13: a line whose content is not valid text contributes no character,   *)
(* not even its prefix, whatever its origin; the other lines are emitted   *)
(* as usual and the call succeeds: the output is the one the same diff     *)
(* gives with the undecodable lines taken out.                             *)
C13_InvalidLineSkipped ==
  (last.op = "get_staged_diff" /\ last.pre_head # 0) =>
     /\ last.ok
     /\ last.text = diff_print(ValidLines(DeliveredLines))

(* The serialization table: prefix and decoded content by origin; nothing  *)
(* for the other origins and for content that does not decode.             *)
TableEntry(line) ==
  IF ~line.valid THEN <<>>
  ELSE IF line.origin = "+" THEN <<"+">> \o line.content
  ELSE IF line.origin = "-" THEN <<"-">> \o line.content
  ELSE IF line.origin = " " THEN <<" ">> \o line.content
  ELSE IF line.origin = "F" THEN <<"-", "-", "-", " ">> \o line.content
  ELSE IF line.origin = "H" THEN <<"@", "@", " ">> \o line.content
  ELSE <<>>

RECURSIVE Concatenation(_)
Concatenation(lines) ==
  IF lines = <<>> THEN <<>>
  ELSE TableEntry(Head(lines)) \o Concatenation(Tail(lines))

(* C14: the output is the concatenation, in delivery order and with        *)
(* nothing reordered or duplicated, of the table entry of every delivered  *)
(* line.                                                                   *)
C14_OutputIsConcatenation ==
  (last.op = "get_staged_diff" /\ last.ok) =>
     last.text = Concatenation(DeliveredLines)

(* C15: has_staged_changes and get_staged_diff are read-only wherever they *)
(* fall among stage_all_changes and commit calls: index, working tree,     *)
(* HEAD and the commits are what they were before the call (the tree       *)
(* get_staged_diff writes is an object, never a commit).                   *)
C15_QueriesReadOnly ==
  last.op \in {"has_staged_changes", "get_staged_diff"} =>
     /\ index = last.pre_index
     /\ worktree = last.pre_worktree
     /\ head = last.pre_head
     /\ commits = last.pre_commits

(* A non-empty diff taken after a mutating call with unstaged work in the   *)
(* tree: staging would change the index, the diff does not.                *)
C15_Witness ==
  /\ last.op = "get_staged_diff"
  /\ last.prev \in {"stage_all_changes", "commit"}
  /\ last.ok
  /\ last.text # <<>>
  /\ add_all(worktree, index) # index

----------------------------------------------------------------------------
(* Further properties of a run of main.                                    *)

Count(s, x) == Cardinality({i \in DOMAIN s : s[i] = x})

Before(s, x, y) == \E i, j \in DOMAIN s : i < j /\ s[i] = x /\ s[j] = y

(* C16: in one run the message client is invoked at most once and only     *)
(* after get_staged_diff returned a diff that is non-empty after trimming; *)
(* commit is invoked at most once and only after the client succeeded and  *)
(* the message was printed; an empty diff or a client error ends the run   *)
(* with no commit call and no second attempt.                              *)
C16_OnceEach ==
  /\ Count(log, "generate_commit_message") <= 1
  /\ Count(log, "commit") <= 1
  /\ Contains(log, "generate_commit_message") =>
        /\ Before(log, "get_staged_diff", "generate_commit_message")
        /\ Trim(diff) # <<>>
  /\ Contains(log, "commit") =>
        /\ Before(log, "generate_commit_message", "commit")
        /\ MessageGenerated
        /\ MessagePrinted
  /\ error = "empty diff" =>
        ~Contains(log, "generate_commit_message")
  /\ error \in {"empty diff", "generation"} =>
        /\ Exited
        /\ exit_code = 1
        /\ ~Contains(log, "commit")
        /\ HistoryUntouched

(* A run ended by a client error after one invocation.                     *)
C16_Witness ==
  /\ Exited
  /\ error = "generation"
  /\ Trim(diff) # <<>>
  /\ Count(log, "generate_commit_message") = 1
  /\ ~args.dry_run

----------------------------------------------------------------------------
(* Properties of longer histories.                                         *)

(* The history is one chain: each commit's only parent is the one before   *)
(* it and HEAD is the last of them.                                        *)
LinearChain ==
  /\ head = Len(commits)
  /\ \A i \in DOMAIN commits :
        commits[i].parents = IF i = 1 THEN <<>> ELSE <<i - 1>>

(* A step made by a commit call that returned Ok.                          *)
SuccessfulCommitStep == last' # last /\ last'.op = "commit" /\ last'.ok

(* C17: commit never amends or replaces.  Every successful call adds       *)
(* exactly one commit, child of the previous HEAD, and leaves the earlier  *)
(* commits as they were; no other step changes the history: n successful   *)
(* calls grow a linear chain by exactly n, also when the index equals      *)
(* HEAD's tree.                                                            *)
C17_NeverAmends ==
  /\ []LinearChain
  /\ [][IF SuccessfulCommitStep
          THEN /\ Len(commits') = Len(commits) + 1
               /\ SubSeq(commits', 1, Len(commits)) = commits
               /\ commits'[Len(commits')].parents = <<head>>
               /\ head' = Len(commits')
          ELSE /\ commits' = commits
               /\ head' = head]_vars

(* A full chain whose last two commits were made in a row, the last one    *)
(* with its parent's tree.                                                 *)
C17_Witness ==
  /\ Len(commits) = MaxChain
  /\ last.op = "commit"
  /\ last.ok
  /\ last.prev = "commit"
  /\ commits[MaxChain].tree = commits[MaxChain - 1].tree
  /\ commits[MaxChain - 1].tree # commits[MaxChain - 2].tree

----------------------------------------------------------------------------
(* Properties of what a run stages.                                        *)

(* Staging everything would change the index the run started with.         *)
UnstagedWorkAtStart == add_all(start.worktree, start.index) # start.index

(* C18: when something is staged at the start of a run, stage_all_changes  *)
(* is never invoked: the index stays the one the run started with, and a   *)
(* commit the run makes has exactly that index as its tree, whatever else  *)
(* the working tree holds.                                                 *)
C18_StagedSubsetOnly ==
  (pc # "idle" /\ ~NothingStagedAtStart) =>
     /\ ~Contains(log, "stage_all_changes")
     /\ index = start.index
     /\ worktree = start.worktree
     /\ CommitSucceeded => commits[head].tree = start.index

(* A run that committed a staged subset while the working tree held more.  *)
C18_Witness ==
  /\ Exited
  /\ CommitSucceeded
  /\ ~NothingStagedAtStart
  /\ UnstagedWorkAtStart
  /\ commits[head].tree # add_all(start.worktree, start.index)

(* C19: auto-staging is never rolled back.  Once a run has invoked         *)
(* stage_all_changes the index is, and stays to the end of the run on      *)
(* every path (dry run, client error, commit error, success), the one      *)
(* stage_all_changes produced; in particular a dry run that started with   *)
(* nothing staged ends with a changed index.                               *)
C19_AutoStagePersists ==
  /\ Contains(log, "stage_all_changes") =>
        /\ NothingStagedAtStart
        /\ ~args.no_auto_stage
        /\ index = add_all(start.worktree, start.index)
        /\ worktree = start.worktree
  /\ (Exited /\ DryRunStop /\ NothingStagedAtStart) =>
        /\ Contains(log, "stage_all_changes")
        /\ index # start.index
        /\ HistoryUntouched

(* A dry run that began with nothing staged and left the index staged.     *)
C19_Witness ==
  /\ Exited
  /\ DryRunStop
  /\ exit_code = 0
  /\ NothingStagedAtStart
  /\ Contains(log, "stage_all_changes")
  /\ index # start.index
  /\ index = add_all(start.worktree, start.index)

----------------------------------------------------------------------------
(* Properties of a run that follows a successful run.                      *)

NothingToCommit ==
  /\ Exited
  /\ exit_code = 1
  /\ error \in {"no changes after staging",
                "no staged changes and --no-auto-stage"}
  /\ HistoryUntouched

(* Right after a commit made by a run the index is the new HEAD's tree.    *)
CleanAfterCommit ==
  (Exited /\ CommitSucceeded) =>
     /\ index = HeadTree
     /\ ~has_staged_changes
     /\ get_staged_diff.ok
     /\ get_staged_diff.text = <<>>

(* A finished run that began right after a run that committed, past the    *)
(* credential and the open; the working tree is the one of that run.       *)
SecondRunDone ==
  /\ Exited
  /\ start.after_commit
  /\ CredentialValid
  /\ env.in_repository

(* C20 as stated: right after a successful commit the index equals the     *)
(* new HEAD's tree, has_staged_changes is false and get_staged_diff is     *)
(* empty; a second run right after a successful run, the working tree      *)
(* unchanged, ends with the nothing-to-commit error and no second commit.  *)
C20_SecondRunNothing ==
  /\ CleanAfterCommit
  /\ SecondRunDone => NothingToCommit

(* C20, amended: the same, for a second run whose working tree holds       *)
(* nothing that staging would add to the index (as after a first run       *)
(* that auto-staged, or that committed all there was).                     *)
C20_SecondRunNothingIfAllCommitted ==
  /\ CleanAfterCommit
  /\ (SecondRunDone /\ ~UnstagedWorkAtStart) => NothingToCommit

(* A second run, auto-stage allowed, that found nothing after a first run  *)
(* that committed a change.                                                *)
C20_Witness ==
  /\ SecondRunDone
  /\ ~UnstagedWorkAtStart
  /\ ~args.no_auto_stage
  /\ error = "no changes after staging"
  /\ Len(commits) = 2
  /\ commits[2].tree # commits[1].tree
  /\ index = HeadTree

====
